---------------------------- MODULE Spec2Model ----------------------------
(***************************************************************************)
(* Model of gallery_dl/extractor/uraakajoshi.py: the timeline pager        *)
(* (UraakajoshiAPI._fetch_timeline), the cursor kept on the extractor      *)
(* (_init_cursor, _update_cursor, finalize) and the two API entry points   *)
(* that start a pager (hashtag_timeline, user_timeline).                   *)
(*                                                                         *)
(* The pager is a Python generator.  One step of the model is one resume   *)
(* of that generator by its consumer (next()): the code that runs from one *)
(* `yield` to the next `yield`, to the return, or to a raised exception.   *)
(*                                                                         *)
(* The views' items() (Timeline, Hashtag, Avatar, Background) are          *)
(* generators over the records the pager yields.  They are modelled in a   *)
(* specification of their own, SpecViews, run on given records, with the   *)
(* transformation of a record and the resolution of its media.             *)
(***************************************************************************)
EXTENDS Integers, Sequences, FiniteSets, TLC

(***************************************************************************)
(* Bounds of the model.                                                    *)
(***************************************************************************)
MaxPage == 3      \* page numbers the server and the operator use: 0..MaxPage
MaxStart == 2     \* start pages a hashtag URL names: 1..MaxStart
MaxItems == 2     \* records in one page of the feed: 1 or MaxItems
MaxFetch == 2     \* requests made in one crawl (one more against a stable server)
MaxLimit == 2     \* page limits passed to user_timeline: 1..MaxLimit
MaxBucket == 2    \* page buckets of 1000 pages that are asked for: 0..MaxBucket
MaxCalls == 2     \* pages for which request parameters are built in a row
MaxFeed == 4      \* records a hashtag feed yields to the Hashtag view
MaxMedia == 2     \* attachments of one post
MaxPosts == 2     \* posts of a user's timeline
MaxHistory == 3   \* entries of the history of an account's handles

(***************************************************************************)
(* Python values.  t is the type, v the numeric value (False == 0 and      *)
(* True == 1 in arithmetic and comparisons, as in Python).  "absent" is a  *)
(* key that a JSON object does not have.                                   *)
(***************************************************************************)
PyNone == [t |-> "none", v |-> 0]
PyAbsent == [t |-> "absent", v |-> 0]
PyInt(n) == [t |-> "int", v |-> n]
PyBool(b) == [t |-> "bool", v |-> b]
PyTrue == PyBool(1)
PyFalse == PyBool(0)

\* bool(x): None, False and 0 are false.
Truthy(x) == x.t \in {"int", "bool"} /\ x.v # 0

\* str(x) of an int or a bool.
PyStr(x) ==
    IF x.t = "bool" THEN (IF x.v = 1 THEN "True" ELSE "False")
    ELSE ToString(x.v)

RECURSIVE ZeroPad(_, _)
\* format(n, "0<width>d") for n >= 0.
ZeroPad(s, width) == IF Len(s) >= width THEN s ELSE ZeroPad("0" \o s, width)

\* Faulty variant of CalculatePageName: the bucket is named by its first
\* page number instead of its last.
CalculatePageNameFloor(page_no) ==
    ZeroPad(ToString((page_no.v \div 1000) * 1000), 6)

\* UraakajoshiAPI._calculate_page_name
CalculatePageName(page_no) ==
    LET page_name_number == (page_no.v \div 1000) * 1000 + 999
    IN  ZeroPad(ToString(page_name_number), 6)

\* UraakajoshiAPI._build_request_params: the parameters that depend on the
\* page (json_item/json_val are fixed per crawl, time is the wall clock).
BuildRequestParams(page_no) ==
    [page_name |-> CalculatePageName(page_no), page_no |-> PyStr(page_no)]

(***************************************************************************)
(* The HTTP collaborator and the server.                                   *)
(***************************************************************************)
\* The record the feed holds at position i of the page asked for as `key`.
Rec(key, i) == [page |-> key, idx |-> i]

Items(key, n) == [i \in 1..n |-> Rec(key, i)]

\* Numbers of records a page that has records holds.
PageSizes == {1, MaxItems}

\* JSON values the server sends for "current" and for "next".
CurrentValues == {PyAbsent} \cup {PyInt(n) : n \in 1..MaxPage}
NextValues == {PyAbsent, PyNone} \cup {PyInt(n) : n \in 0..MaxPage}

\* A decoded JSON object: "data" present or not, "current", "next".
JsonDoc(has, items, cur, nxt) ==
    [isNone |-> FALSE, hasData |-> has, data |-> items, current |-> cur, next |-> nxt]

\* What _make_timeline_request returns when response.json() raised.
NoneDoc == [isNone |-> TRUE, hasData |-> FALSE, data |-> <<>>,
            current |-> PyAbsent, next |-> PyAbsent]

\* JSON objects the server can answer a request for page `key` with.
JsonBodies(key) ==
    {JsonDoc(FALSE, <<>>, PyAbsent, PyAbsent), JsonDoc(TRUE, <<>>, PyAbsent, PyAbsent)}
    \cup {JsonDoc(TRUE, Items(key, n), c, x) :
            n \in PageSizes, c \in CurrentValues, x \in NextValues}

\* Responses the server can give: a JSON object, or a body that is no JSON.
Responses(key) ==
    {[kind |-> "garbage", body |-> NoneDoc]}
    \cup {[kind |-> "json", body |-> b] : b \in JsonBodies(key)}

\* Outcomes of self.extractor.request(url, params): it returns the server's
\* response, or it raises (a network failure, an HTTP error).
RequestOutcomes(key) ==
    {[kind |-> "raise", body |-> NoneDoc]} \cup Responses(key)

\* UraakajoshiAPI._make_timeline_request, after request() returned.
MakeTimelineRequest(out) == IF out.kind = "json" THEN out.body ELSE NoneDoc

(***************************************************************************)
(* Pure parts of the pager and of the cursor.                              *)
(***************************************************************************)
\* _fetch_timeline: `if max_pages and page_no > (page_start + max_pages - 1)`
LimitReached(maxp, pno, pstart) ==
    Truthy(maxp) /\ pno.v > pstart.v + maxp.v - 1

\* _fetch_timeline: `if not data or not data.get("data")`
NoData(d) == d.isNone \/ ~d.hasData \/ d.data = <<>>

\* Faulty variant of HasNextPage: `>=` in place of `>`.
HasNextPageOrSame(d) ==
    LET current_page == IF d.current.t = "absent" THEN PyInt(1) ELSE d.current
        next_page == IF d.next.t = "absent" THEN PyNone ELSE d.next
    IN  Truthy(next_page) /\ next_page.v >= current_page.v

\* UraakajoshiAPI._has_next_page
HasNextPage(d) ==
    LET current_page == IF d.current.t = "absent" THEN PyInt(1) ELSE d.current
        next_page == IF d.next.t = "absent" THEN PyNone ELSE d.next
    IN  Truthy(next_page) /\ next_page.v > current_page.v

\* Faulty variant of NextPageNo: the pager steps to page_no + 1.
NextPageNoIncrement(d, pno) == PyInt(pno.v + 1)

\* _fetch_timeline: `page_no = data.get("next", page_no + 1)`
NextPageNo(d, pno) == IF d.next.t = "absent" THEN PyInt(pno.v + 1) ELSE d.next

\* UraakajoshiExtractor._init_cursor: the value returned.
InitCursor(cfg) == IF cfg = PyTrue THEN PyNone ELSE cfg

\* UraakajoshiExtractor._init_cursor: whether _update_cursor is replaced by
\* util.identity.
InitCursorDisables(cfg) == cfg # PyTrue /\ ~Truthy(cfg)

\* Faulty variant of HashtagPageStart: the cursor is not looked at.
HashtagPageStartNoCursor(pstart, cur) == pstart

\* UraakajoshiAPI.hashtag_timeline: the page_start handed to the pager.
HashtagPageStart(pstart, cur) == IF cur.t # "none" THEN cur ELSE pstart

\* Faulty variant of UpdateCursor: `self._cursor = cursor` only under `if cursor:`.
UpdateCursorIfSet(identity, old, new) ==
    IF identity \/ ~Truthy(new) THEN old ELSE new

\* UraakajoshiExtractor._update_cursor (or util.identity): self._cursor after
\* the call.
UpdateCursor(identity, old, new) == IF identity THEN old ELSE new

\* Faulty variant of FinalizeMessage: finalize logs nothing.
FinalizeSilent(cur) == PyNone

\* UraakajoshiExtractor.finalize: the page named in the logged instruction,
\* None when nothing is logged.
FinalizeMessage(cur) == IF Truthy(cur) THEN cur ELSE PyNone

(***************************************************************************)
(* State.                                                                  *)
(***************************************************************************)
VARIABLES
    view,         \* "tag": UraakajoshiTagExtractor, "user": a user_timeline view
    cfgCursor,    \* the config option "cursor" (default True)
    urlPage,      \* page number of the hashtag URL, 1 when it has none
    maxPages,     \* max_pages argument of user_timeline (None: no limit)
    phase,        \* "new", "crawling", "ended", "finalized"
    updIdentity,  \* self._update_cursor has been replaced by util.identity
    cursor,       \* self._cursor
    pc,           \* generator: "none", "created", "suspended", "done", "raised", "closed"
    page_start,   \* _fetch_timeline's page_start
    max_pages,    \* _fetch_timeline's max_pages
    page_no,      \* _fetch_timeline's page_no
    data,         \* _fetch_timeline's data (the page being yielded)
    idx,          \* number of records of data["data"] yielded so far
    why,          \* how the generator ended: "", "limit", "nodata", "nonext", "raise", "close"
    trace,        \* what the crawl did: requests, responses, yielded records, cursor updates
    surfaced,     \* page named by finalize's log line
    stable,       \* the server answers a page the same way every time
    memo,         \* stable server: the answer given for each page asked so far
    ref,          \* the crawl that a resumed crawl continues, and where
    mode,         \* the items() (or API helper) that is run on `input`, "none" for the pager alone
    input,        \* what it is given: the records the pager yields, in order
    taken,        \* number of records of `input` it has consumed
    seen_users,   \* UraakajoshiTagExtractor.items: seen_users
    pending,      \* items(): what the running `for` over files has not yet yielded
    output,       \* the messages yielded so far
    vpc           \* items() generator: "none", "created", "suspended", "done"

vars == <<view, cfgCursor, urlPage, maxPages, phase, updIdentity, cursor, pc,
          page_start, max_pages, page_no, data, idx, why, trace, surfaced,
          stable, memo, ref, mode, input, taken, seen_users, pending, output, vpc>>

\* The state of a view's items().
views == <<mode, input, taken, seen_users, pending, output, vpc>>

config == <<view, cfgCursor, urlPage, maxPages, stable>>
generator == <<page_start, max_pages, page_no, data, idx>>

\* Events of the trace.
ReqEvent(p) == [e |-> "request", params |-> BuildRequestParams(p)]
YieldEvent(r) == [e |-> "yield", item |-> r]
CursorEvent(c) == [e |-> "cursor", value |-> c]
ResponseEvent(d) == [e |-> "response", doc |-> d]

IsRequest(ev) == ev.e = "request"
IsYield(ev) == ev.e = "yield"
IsCursor(ev) == ev.e = "cursor"
IsResponse(ev) == ev.e = "response"

Requests(tr) == SelectSeq(tr, IsRequest)
Yielded(tr) == SelectSeq(tr, IsYield)
Reported(tr) == SelectSeq(tr, IsCursor)
Received(tr) == SelectSeq(tr, IsResponse)

NoRef == [used |-> FALSE, trace |-> <<>>, at |-> 0, why |-> ""]

\* Values of the config option "cursor": the default True, false values
\* (False, None, 0) and page numbers.
CursorOptions == {PyTrue, PyFalse, PyNone} \cup {PyInt(n) : n \in 0..MaxPage}

LimitOptions == {PyNone} \cup {PyInt(n) : n \in 1..MaxLimit}

\* No items() runs: the pager is driven by its consumer directly.
ViewsIdle ==
    /\ mode = "none"
    /\ input = <<>>
    /\ taken = 0
    /\ seen_users = {}
    /\ pending = <<>>
    /\ output = <<>>
    /\ vpc = "none"

\* The extractor and its API as constructed, before items() is called.
Constructed(stab) ==
    /\ view \in {"tag", "user"}
    /\ cfgCursor \in (IF view = "tag" THEN CursorOptions ELSE {PyTrue})
    /\ urlPage \in (IF view = "tag" THEN 1..MaxStart ELSE {1})
    /\ maxPages \in (IF view = "user" THEN LimitOptions ELSE {PyNone})
    /\ phase = "new"
    /\ updIdentity = FALSE
    /\ cursor = PyNone
    /\ pc = "none"
    /\ page_start = PyInt(1)
    /\ max_pages = PyNone
    /\ page_no = PyInt(1)
    /\ data = NoneDoc
    /\ idx = 0
    /\ why = ""
    /\ trace = <<>>
    /\ surfaced = PyNone
    /\ stable = stab
    /\ memo = [k \in {} |-> NoneDoc]
    /\ ref = NoRef

InitWith(stab) == Constructed(stab) /\ ViewsIdle

Init == InitWith(FALSE)

(***************************************************************************)
(* The server: any outcome, or the remembered one when it is stable.       *)
(***************************************************************************)
Answers(key) ==
    IF stable /\ key \in DOMAIN memo THEN {memo[key]} ELSE RequestOutcomes(key)

Remember(key, out) ==
    IF stable
    THEN [k \in DOMAIN memo \cup {key} |-> IF k = key THEN out ELSE memo[k]]
    ELSE memo

\* Requests the model follows one crawl for.  Against a stable server a
\* crawl is followed one request further, so that a page asked for twice
\* and the crawl resumed after it both fit.
FetchBound == IF stable THEN MaxFetch + 1 ELSE MaxFetch

(***************************************************************************)
(* Starting a crawl.                                                       *)
(***************************************************************************)
\* UraakajoshiTagExtractor.items: self._init_cursor() and the call of
\* api.hashtag_timeline(tag, page_start=self.page_start, cursor=...), which
\* creates the generator.
TagItems ==
    /\ phase = "new"
    /\ view = "tag"
    /\ updIdentity' = InitCursorDisables(cfgCursor)
    /\ page_start' = HashtagPageStart(PyInt(urlPage), InitCursor(cfgCursor))
    /\ max_pages' = PyNone
    /\ pc' = "created"
    /\ phase' = "crawling"
    /\ UNCHANGED <<views, config, cursor, page_no, data, idx, why, trace, surfaced, memo, ref>>

\* UraakajoshiAPI.user_timeline(username, max_pages): the pager from page 1.
UserTimeline ==
    /\ phase = "new"
    /\ view = "user"
    /\ page_start' = PyInt(1)
    /\ max_pages' = maxPages
    /\ pc' = "created"
    /\ phase' = "crawling"
    /\ UNCHANGED <<views, config, updIdentity, cursor, page_no, data, idx, why, trace,
                   surfaced, memo, ref>>

(***************************************************************************)
(* _fetch_timeline.                                                        *)
(***************************************************************************)
\* The body of `while True` from its top to the first `yield`, `break` or
\* exception, entered with page_no = p, after the events tr, with
\* self._cursor = cur.
LoopBody(p, tr, cur) ==
    IF LimitReached(max_pages, p, page_start)
    THEN /\ pc' = "done"
         /\ why' = "limit"
         /\ page_no' = p
         /\ trace' = tr
         /\ cursor' = cur
         /\ UNCHANGED <<data, idx, memo>>
    ELSE /\ Len(Requests(tr)) < FetchBound
         /\ \E out \in Answers(PyStr(p)) :
              LET d == MakeTimelineRequest(out)
                  tr0 == Append(tr, ReqEvent(p))
                  tr1 == IF out.kind = "raise" THEN tr0
                         ELSE Append(tr0, ResponseEvent(d))
              IN  /\ memo' = Remember(PyStr(p), out)
                  /\ page_no' = p
                  /\ IF out.kind = "raise"
                     THEN /\ pc' = "raised"
                          /\ why' = "raise"
                          /\ trace' = tr1
                          /\ cursor' = cur
                          /\ UNCHANGED <<data, idx>>
                     ELSE IF NoData(d)
                     THEN /\ pc' = "done"
                          /\ why' = "nodata"
                          /\ trace' = Append(tr1, CursorEvent(PyNone))
                          /\ cursor' = UpdateCursor(updIdentity, cur, PyNone)
                          /\ data' = d
                          /\ idx' = 0
                     ELSE /\ pc' = "suspended"
                          /\ why' = ""
                          /\ trace' = Append(tr1, YieldEvent(d.data[1]))
                          /\ cursor' = cur
                          /\ data' = d
                          /\ idx' = 1

\* First next() on the generator: page_no = page_start, then the loop.
PullStart ==
    /\ pc = "created"
    /\ LoopBody(page_start, trace, cursor)
    /\ UNCHANGED <<views, config, phase, updIdentity, page_start, max_pages, surfaced, ref>>

\* next() while records of the current page remain: the `for` yields one.
PullItem ==
    /\ pc = "suspended"
    /\ idx < Len(data.data)
    /\ idx' = idx + 1
    /\ trace' = Append(trace, YieldEvent(data.data[idx + 1]))
    /\ UNCHANGED <<views, config, phase, updIdentity, cursor, pc, page_start, max_pages,
                   page_no, data, why, surfaced, memo, ref>>

\* next() after the last record of a page that has no next page.
PullLast ==
    /\ pc = "suspended"
    /\ idx = Len(data.data)
    /\ ~HasNextPage(data)
    /\ pc' = "done"
    /\ why' = "nonext"
    /\ trace' = Append(trace, CursorEvent(PyNone))
    /\ cursor' = UpdateCursor(updIdentity, cursor, PyNone)
    /\ UNCHANGED <<views, config, phase, updIdentity, page_start, max_pages, page_no,
                   data, idx, surfaced, memo, ref>>

\* Faulty variant of PullAdvance: the page after this one is requested while
\* records of this page are still to be yielded.
PullAdvanceEager ==
    /\ pc = "suspended"
    /\ HasNextPage(data)
    /\ LET p == NextPageNo(data, page_no)
       IN  LoopBody(p, Append(trace, CursorEvent(p)),
                    UpdateCursor(updIdentity, cursor, p))
    /\ UNCHANGED <<views, config, phase, updIdentity, page_start, max_pages, surfaced, ref>>

\* next() after the last record of a page that has a next page: advance,
\* report the cursor, and run the loop for the new page.
PullAdvance ==
    /\ pc = "suspended"
    /\ idx = Len(data.data)
    /\ HasNextPage(data)
    /\ LET p == NextPageNo(data, page_no)
       IN  LoopBody(p, Append(trace, CursorEvent(p)),
                    UpdateCursor(updIdentity, cursor, p))
    /\ UNCHANGED <<views, config, phase, updIdentity, page_start, max_pages, surfaced, ref>>

\* The consumer stops pulling: the generator is closed where it stands.
Close ==
    /\ pc \in {"created", "suspended"}
    /\ pc' = "closed"
    /\ why' = "close"
    /\ UNCHANGED <<views, config, phase, updIdentity, cursor, generator, trace,
                   surfaced, memo, ref>>

Ended == pc \in {"done", "raised", "closed"}

\* UraakajoshiExtractor.finalize, called once when the crawl has ended.
Finalize ==
    /\ phase = "crawling"
    /\ Ended
    /\ phase' = "finalized"
    /\ surfaced' = FinalizeMessage(cursor)
    /\ UNCHANGED <<views, config, updIdentity, cursor, pc, generator, why, trace, memo, ref>>

Next ==
    \/ TagItems
    \/ UserTimeline
    \/ PullStart
    \/ PullItem
    \/ PullLast
    \/ PullAdvance
    \/ Close
    \/ Finalize

Spec == Init /\ [][Next]_vars

(***************************************************************************)
(* Resuming a hashtag crawl against a stable server.                       *)
(*                                                                         *)
(* The first crawl is the uninterrupted one.  Every cursor update in its   *)
(* trace is a point at which it could have been stopped with that cursor   *)
(* as the last one reported; what it did after that point is what the      *)
(* uninterrupted crawl yields from that page onward.  Resume picks such a  *)
(* point and starts a fresh extractor with the option cursor set to the    *)
(* page reported there, against the same server.                           *)
(***************************************************************************)
Resume ==
    /\ phase = "finalized"
    /\ view = "tag"
    /\ stable
    /\ ~ref.used
    /\ \E k \in 1..Len(trace) :
         /\ IsCursor(trace[k])
         /\ trace[k].value.t = "int"
         /\ ref' = [used |-> TRUE, trace |-> trace, at |-> k, why |-> why]
         /\ cfgCursor' = trace[k].value
    /\ phase' = "new"
    /\ updIdentity' = FALSE
    /\ cursor' = PyNone
    /\ pc' = "none"
    /\ page_start' = PyInt(1)
    /\ max_pages' = PyNone
    /\ page_no' = PyInt(1)
    /\ data' = NoneDoc
    /\ idx' = 0
    /\ why' = ""
    /\ trace' = <<>>
    /\ surfaced' = PyNone
    /\ UNCHANGED <<views, view, urlPage, maxPages, stable, memo>>

InitResume == InitWith(TRUE) /\ view = "tag" /\ cfgCursor = PyTrue

NextResume ==
    \/ TagItems
    \/ PullStart
    \/ PullItem
    \/ PullLast
    \/ PullAdvance
    \/ Close
    \/ Finalize
    \/ Resume

SpecResume == InitResume /\ [][NextResume]_vars

(***************************************************************************)
(* Claims.                                                                 *)
(***************************************************************************)
IsPrefix(a, b) == Len(a) <= Len(b) /\ SubSeq(b, 1, Len(a)) = a

Last(s) == s[Len(s)]

RecordsOf(tr) == [i \in 1..Len(Yielded(tr)) |-> Yielded(tr)[i].item]
PagesOf(tr) == [i \in 1..Len(Requests(tr)) |-> Requests(tr)[i].params.page_no]
CursorsOf(tr) == [i \in 1..Len(Reported(tr)) |-> Reported(tr)[i].value]
DocsOf(tr) == [i \in 1..Len(Received(tr)) |-> Received(tr)[i].doc]

\* The uninterrupted crawl after the cursor update it is resumed at.
RefAfter == SubSeq(ref.trace, ref.at + 1, Len(ref.trace))
\* ... and up to that update.
RefBefore == SubSeq(ref.trace, 1, ref.at)
RefCursor == ref.trace[ref.at].value

\* The resumed crawl yields what the uninterrupted crawl yields from the
\* cursor page onward: never anything else, and all of it once both ended
\* by themselves.
ResumeSameRecords ==
    ref.used =>
        /\ IsPrefix(RecordsOf(trace), RecordsOf(RefAfter))
             \/ IsPrefix(RecordsOf(RefAfter), RecordsOf(trace))
        /\ (ref.why \in {"nodata", "nonext", "raise"} /\ pc \in {"done", "raised"})
             => RecordsOf(trace) = RecordsOf(RefAfter)

\* The resumed crawl yields no record of a page that was fetched before the
\* cursor page (the cursor page itself is the one page it may fetch again).
ResumeNoEarlierPage ==
    ref.used =>
        \A i \in 1..Len(RecordsOf(trace)) :
            RecordsOf(trace)[i].page \notin
                {PagesOf(RefBefore)[j] : j \in 1..Len(PagesOf(RefBefore))}
                    \ {PyStr(RefCursor)}

\* C1: against a server whose answer depends only on the page asked for, a
\* crawl resumed with page_start = c, c a cursor the first crawl reported,
\* yields exactly the records the uninterrupted crawl yields from page c
\* onward, in the same order, and no record of a page fetched before page c.
C1_ResumeEquivalence == ResumeSameRecords /\ ResumeNoEarlierPage

\* The condition of C2 on a decoded response: `next` absent, null, or
\* next <= current.
ClaimStop(d) ==
    /\ ~d.isNone
    /\ \/ d.next.t \in {"absent", "none"}
       \/ d.next.t = "int" /\ d.current.t = "int" /\ d.next.v <= d.current.v

\* C2: once a fetched response has `next` absent, null or <= current, every
\* further resume yields the next record of that page, in order, or ends
\* the sequence after the last of them; no further request is made, and an
\* ended sequence does nothing more.
C2_StopsAtLastPage ==
    [][ /\ (pc = "suspended" /\ ClaimStop(data)) =>
              /\ PagesOf(trace') = PagesOf(trace)
              /\ \/ /\ pc' = "suspended"
                    /\ idx < Len(data.data)
                    /\ data' = data
                    /\ idx' = idx + 1
                    /\ RecordsOf(trace') = Append(RecordsOf(trace), data.data[idx + 1])
                 \/ /\ pc' = "done"
                    /\ idx = Len(data.data)
                    /\ RecordsOf(trace') = RecordsOf(trace)
                 \/ pc' = "closed"
        /\ pc = "done" => (pc' = "done" /\ trace' = trace)
      ]_vars

\* C2 witness: a page of MaxItems records with next <= current was yielded
\* in full and the sequence ended after that one request.
C2_Witness ==
    /\ pc = "done"
    /\ why = "nonext"
    /\ data.next.t = "int"
    /\ data.current.t = "int"
    /\ data.next.v <= data.current.v
    /\ Len(PagesOf(trace)) = 1
    /\ RecordsOf(trace) = data.data
    /\ Len(data.data) = MaxItems

\* The condition of C3 on a decoded response: a next value n > current.
ValidNext(d) == d.next.t = "int" /\ d.current.t = "int" /\ d.next.v > d.current.v

\* C3: the resume that follows the last record of a page with a valid next
\* value n passes n to the cursor update callback, and the request it makes,
\* if any, is for page n.
C3_AdvancesToNext ==
    [][ (pc = "suspended" /\ idx = Len(data.data) /\ ValidNext(data) /\ pc' # "closed") =>
            /\ Len(CursorsOf(trace')) > Len(CursorsOf(trace))
            /\ CursorsOf(trace')[Len(CursorsOf(trace)) + 1] = data.next
            /\ \/ PagesOf(trace') = PagesOf(trace)
               \/ PagesOf(trace') = Append(PagesOf(trace), ToString(data.next.v))
      ]_vars

\* C3 witness: page 1 answered current=1, next=3 and the next request was
\* for page 3, with cursor 3 reported.
C3_Witness ==
    /\ Len(PagesOf(trace)) = 2
    /\ PagesOf(trace) = <<"1", "3">>
    /\ DocsOf(trace)[1].current = PyInt(1)
    /\ DocsOf(trace)[1].next = PyInt(3)
    /\ CursorsOf(trace)[1] = PyInt(3)

\* The responses of the example of C4.
IsExamplePage(d, cur, nxt) ==
    ~d.isNone /\ d.hasData /\ d.data # <<>> /\ d.current = cur /\ d.next = nxt

C4_Example ==
    /\ Len(DocsOf(trace)) = 2
    /\ IsExamplePage(DocsOf(trace)[1], PyInt(1), PyInt(2))
    /\ IsExamplePage(DocsOf(trace)[2], PyInt(2), PyNone)

\* C4: when the pager ends on empty or missing data, on a decode failure or
\* on a page without a valid next page, the last value passed to the cursor
\* update callback is None (and None is what is stored); after responses
\* (current=1,next=2) and (current=2,next=None) the records yielded are
\* those of page 1 followed by those of page 2.
C4_NaturalEndReportsNone ==
    /\ (pc = "done" /\ why \in {"nodata", "nonext"}) =>
          /\ CursorsOf(trace) # <<>>
          /\ Last(CursorsOf(trace)) = PyNone
          /\ ~updIdentity => cursor = PyNone
    /\ (pc = "done" /\ C4_Example) =>
          /\ why = "nonext"
          /\ RecordsOf(trace) = DocsOf(trace)[1].data \o DocsOf(trace)[2].data
          /\ CursorsOf(trace) = <<PyInt(2), PyNone>>
          /\ Len(PagesOf(trace)) = 2

\* C4 witness: the example ran to its end with tracking enabled.
C4_Witness ==
    /\ pc = "done"
    /\ C4_Example
    /\ ~updIdentity
    /\ Len(DocsOf(trace)[1].data) = MaxItems
    /\ Len(RecordsOf(trace)) = MaxItems + Len(DocsOf(trace)[2].data)

\* C5: with a page limit n the pager never fetches more than n pages, and
\* when it stops for the limit it has fetched exactly n.
C5_LimitCountsFetches ==
    Truthy(max_pages) =>
        /\ Len(PagesOf(trace)) <= max_pages.v
        /\ (pc = "done" /\ why = "limit") => Len(PagesOf(trace)) = max_pages.v

\* C6: a failed fetch (the request raised, or the body is no JSON) never
\* raises into the consumer; the sequence ends as at end-of-feed.
C6_FetchFailuresNonFatal ==
    /\ pc # "raised"
    /\ (DocsOf(trace) # <<>> /\ Last(DocsOf(trace)).isNone) => pc = "done"

\* C7: with cursor tracking disabled the Hashtag view starts at the start
\* page the URL configures, as it does with tracking enabled and no cursor.
C7_DisabledTrackingSamePages ==
    (view = "tag" /\ updIdentity /\ PagesOf(trace) # <<>>) =>
        PagesOf(trace)[1] = ToString(urlPage)

\* The case of C8: a Hashtag crawl that delivered at least one page ended
\* because a later fetch could not be decoded or came back without data.
C8_FailedAfterFirstPage ==
    /\ view = "tag"
    /\ pc = "done"
    /\ why = "nodata"
    /\ Len(PagesOf(trace)) >= 2

\* C8 as stated: with tracking enabled the crawl ends with the failed page
\* as the stored cursor, and finalize surfaces it.
C8_FailureKeepsCursor ==
    (C8_FailedAfterFirstPage /\ ~updIdentity) =>
        /\ cursor = page_no
        /\ phase = "finalized" => surfaced = page_no

\* C8 as amended: the crawl ends with the stored cursor None, and finalize
\* surfaces no page.
C8_FailureClearsCursor ==
    C8_FailedAfterFirstPage =>
        /\ cursor = PyNone
        /\ phase = "finalized" => surfaced = PyNone

\* C8 witness: with tracking enabled, page 1 was delivered, the body of the
\* next page was no JSON, and finalize has run.
C8_Witness ==
    /\ C8_FailedAfterFirstPage
    /\ ~updIdentity
    /\ Last(DocsOf(trace)).isNone
    /\ CursorsOf(trace)[1].t = "int"
    /\ phase = "finalized"

\* C9: at the end of a Hashtag crawl with tracking enabled, finalize names
\* the page last passed to the cursor update callback, and names none when
\* that value is None or the callback was never called.
C9_FinalizeSurfacesLastCursor ==
    (view = "tag" /\ ~updIdentity /\ phase = "finalized") =>
        surfaced = (IF CursorsOf(trace) = <<>> THEN PyNone
                    ELSE Last(CursorsOf(trace)))

\* C9 witness: the consumer stopped a crawl whose last reported cursor was
\* page 3, and finalize named page 3.
C9_Witness ==
    /\ view = "tag"
    /\ ~updIdentity
    /\ phase = "finalized"
    /\ why = "close"
    /\ CursorsOf(trace) # <<>>
    /\ Last(CursorsOf(trace)) = PyInt(3)
    /\ surfaced = PyInt(3)

\* C10: in the Hashtag view the first request is for the supplied cursor
\* page when the option cursor is a page number, and for the start page of
\* the URL when the option is left at its default.
C10_CursorOverridesStart ==
    (view = "tag" /\ PagesOf(trace) # <<>>) =>
        /\ cfgCursor.t = "int" => PagesOf(trace)[1] = ToString(cfgCursor.v)
        /\ cfgCursor = PyTrue => PagesOf(trace)[1] = ToString(urlPage)

\* C10 witness: cursor 3 was supplied with a URL that names page 2, and the
\* first request was for page 3.
C10_Witness ==
    /\ view = "tag"
    /\ cfgCursor = PyInt(3)
    /\ urlPage = 2
    /\ PagesOf(trace) # <<>>
    /\ PagesOf(trace)[1] = "3"

(***************************************************************************)
(* The pager again: order of pages, laziness, and which views keep a       *)
(* cursor.                                                                 *)
(***************************************************************************)

\* The page number a request's page_no parameter stands for.
PageNumber(str) == CHOOSE n \in 0..(MaxPage + 1) : ToString(n) = str

IsPageCursor(c) == c.t = "int"

\* C17: within one invocation of the pager the requested pages are strictly
\* increasing, and so are the cursors other than None that it reports,
\* whatever the server answers.
C17_MonotoneCursor ==
    LET pages == PagesOf(trace)
        curs == SelectSeq(CursorsOf(trace), IsPageCursor)
    IN  /\ \A i \in 1..(Len(pages) - 1) :
              PageNumber(pages[i]) < PageNumber(pages[i + 1])
        /\ \A i \in 1..(Len(curs) - 1) : curs[i].v < curs[i + 1].v
        /\ (curs # <<>> /\ pages # <<>>) => PageNumber(pages[1]) < curs[1].v

RECURSIVE Concat(_)
Concat(seqs) == IF seqs = <<>> THEN <<>> ELSE seqs[1] \o Concat(Tail(seqs))

\* The records of the pages fetched so far, in the server's order.
FetchedRecords(tr) ==
    LET docs == Received(tr)
    IN  Concat([i \in 1..Len(docs) |-> docs[i].doc.data])

\* The records delivered so far, in the order of delivery.
DeliveredRecords(tr) ==
    LET yields == Yielded(tr)
    IN  [i \in 1..Len(yields) |-> yields[i].item]

\* C19: the pager is pull-driven.  A step requests at most one page, and
\* only when every record fetched before has been delivered; a step
\* delivers at most one record, and the records delivered are, in the
\* server's order, the first of those fetched; once the consumer has stopped
\* pulling, no request is made and the stored cursor does not change.
C19_LazyPullDriven ==
    [][ /\ trace' # trace =>
              LET delivered == DeliveredRecords(trace)
                  delivered_after == DeliveredRecords(trace')
                  asked == Len(Requests(trace))
                  asked_after == Len(Requests(trace'))
              IN  /\ Len(delivered_after) <= Len(delivered) + 1
                  /\ IsPrefix(delivered_after, FetchedRecords(trace'))
                  /\ asked_after <= asked + 1
                  /\ asked_after > asked =>
                        /\ pc \in {"created", "suspended"}
                        /\ delivered = FetchedRecords(trace)
        /\ pc = "closed" => (trace' = trace /\ cursor' = cursor /\ pc' = "closed")
      ]_vars

\* C19 witness: the consumer stopped pulling after the first of two records
\* of a page that has a next page; one page was requested, and finalize ran.
C19_Witness ==
    /\ pc = "closed"
    /\ idx = 1
    /\ Len(data.data) = 2
    /\ HasNextPage(data)
    /\ Len(PagesOf(trace)) = 1
    /\ phase = "finalized"

\* A Timeline crawl pulls user_timeline(username) to its end; the Info,
\* Avatar and Background views pull user_timeline(username, max_pages=1)
\* for its first record only.
TimelineCrawl == view = "user" /\ maxPages = PyNone

FirstRecordCrawl ==
    view = "user" /\ maxPages = PyInt(1) /\ Len(RecordsOf(trace)) <= 1

\* C20: a crawl of a view other than the Hashtag view never ends with a
\* stored cursor other than None, and finalize surfaces no page for it.
C20_CursorOnlyForHashtag ==
    (TimelineCrawl \/ FirstRecordCrawl) =>
        /\ Ended => cursor = PyNone
        /\ surfaced = PyNone

(***************************************************************************)
(* The views.  A view's items() is a generator over the records the pager  *)
(* yields; here it is run on a given sequence of records (`input`), one    *)
(* step per message it yields.  The pager itself stands still: it is       *)
(* modelled above.                                                         *)
(***************************************************************************)

\* The pager's variables while a view is run on given records.
PagerAside ==
    /\ Constructed(FALSE)
    /\ view = (IF mode = "tag" THEN "tag" ELSE "user")
    /\ cfgCursor = PyTrue
    /\ urlPage = 1
    /\ maxPages = PyNone

pager == <<view, cfgCursor, urlPage, maxPages, phase, updIdentity, cursor, pc,
           page_start, max_pages, page_no, data, idx, why, trace, surfaced,
           stable, memo, ref>>

\* Page numbers around the ends of the buckets 0..MaxBucket.
PageSamples == {k * 1000 + r : k \in 0..MaxBucket, r \in {0, 1, 500, 999}}

RECURSIVE SeqsUpTo(_, _)
\* The sequences over S of length at most n.
SeqsUpTo(S, n) ==
    IF n = 0 THEN {<<>>}
    ELSE LET shorter == SeqsUpTo(S, n - 1)
         IN  shorter \cup {Append(q, x) : q \in {r \in shorter : Len(r) = n - 1}, x \in S}

\* _fetch_timeline asks for the request parameters of these pages, in turn.
ParamsInit ==
    /\ mode = "params"
    /\ input \in SeqsUpTo(PageSamples, MaxCalls) \ {<<>>}
    /\ taken = 0
    /\ seen_users = {}
    /\ pending = <<>>
    /\ output = <<>>
    /\ vpc = "created"

\* One pass of the pager's loop, as far as the parameters:
\* params = self._build_request_params(base_params, page_no)
BuildParams ==
    /\ mode = "params"
    /\ taken < Len(input)
    /\ taken' = taken + 1
    /\ output' = Append(output, BuildRequestParams(PyInt(input[taken + 1])))
    /\ vpc' = (IF taken + 1 = Len(input) THEN "done" ELSE "suspended")
    /\ UNCHANGED <<pager, mode, input, seen_users, pending>>

(***************************************************************************)
(* Python dicts are functions from their keys; a key a dict does not have  *)
(* is not in its domain.  str values are strings, lists are sequences.     *)
(***************************************************************************)
EmptyDict == [k \in {} |-> ""]

\* d.get(key, default)
Get(d, key, default) == IF key \in DOMAIN d THEN d[key] ELSE default

\* bool(d.get(key)) for a str value: the key is there and its value is not "".
HasText(d, key) == key \in DOMAIN d /\ d[key] # ""

\* UraakajoshiExtractor.root
Root == "https://www.uraaka-joshi.com"

Range(q) == {q[i] : i \in 1..Len(q)}

(***************************************************************************)
(* UraakajoshiTagExtractor.items                                           *)
(***************************************************************************)
Handles == {"alice", "bob", "carol"}

\* Records of a hashtag feed, as far as the Hashtag view reads them: the
\* author's handle, which can be empty, or no "user" at all.
TagRecords ==
    {[user |-> [screen_name |-> h]] : h \in Handles \cup {""}}
    \cup {[tweet |-> EmptyDict]}

TagInit ==
    /\ mode = "tag"
    /\ input \in SeqsUpTo(TagRecords, MaxFeed)
    /\ taken = 0
    /\ seen_users = {}
    /\ pending = <<>>
    /\ output = <<>>
    /\ vpc = "created"

\* Faulty variant of NewUser: a handle seen before counts as new.
NewUserAgain(tweet_data, seen) ==
    HasText(Get(tweet_data, "user", EmptyDict), "screen_name")

\* if username and username not in seen_users
NewUser(tweet_data, seen) ==
    LET user_data == Get(tweet_data, "user", EmptyDict)
    IN  /\ HasText(user_data, "screen_name")
        /\ user_data.screen_name \notin seen

QueueMessage(username) ==
    [kind |-> "Queue", url |-> Root \o "/user/" \o username,
     meta |-> [_extractor |-> "UraakajoshiUserExtractor"]]

\* One resume of the Hashtag view's items(): records are taken from the
\* pager until one has a new author, whose Queue message is yielded; when
\* the pager ends, items() ends.
TagNext ==
    /\ mode = "tag"
    /\ vpc \in {"created", "suspended"}
    /\ LET new == {i \in (taken + 1)..Len(input) : NewUser(input[i], seen_users)}
       IN  IF new = {}
           THEN /\ taken' = Len(input)
                /\ vpc' = "done"
                /\ UNCHANGED <<seen_users, output>>
           ELSE LET i == CHOOSE k \in new : \A l \in new : k <= l
                    username == input[i].user.screen_name
                IN  /\ taken' = i
                    /\ vpc' = "suspended"
                    /\ seen_users' = seen_users \cup {username}
                    /\ output' = Append(output, QueueMessage(username))
    /\ UNCHANGED <<pager, mode, input, pending>>

\* The decimal digit a one-character string is, 10 for any other string.
DigitValue(ch) ==
    IF \E d \in 0..9 : ToString(d) = ch
    THEN CHOOSE d \in 0..9 : ToString(d) = ch
    ELSE 10

IsDigits(str) == \A i \in 1..Len(str) : DigitValue(SubSeq(str, i, i)) < 10

RECURSIVE DigitsUpTo(_, _)
\* The number the first n characters of a string of decimal digits denote.
DigitsUpTo(str, n) ==
    IF n = 0 THEN 0
    ELSE DigitsUpTo(str, n - 1) * 10 + DigitValue(SubSeq(str, n, n))

\* The number a string of decimal digits denotes.
DigitsValue(str) == DigitsUpTo(str, Len(str))

(***************************************************************************)
(* Library conversions the base view calls.                                *)
(***************************************************************************)
\* text.parse_int(value): the number a string of digits denotes, 0 for any
\* other string.
ParseInt(str) == IF str # "" /\ IsDigits(str) THEN DigitsValue(str) ELSE 0

\* Whether pat stands at position i of txt.
StartsAt(txt, i, pat) ==
    i + Len(pat) - 1 <= Len(txt) /\ SubSeq(txt, i, i + Len(pat) - 1) = pat

RECURSIVE UnescapeFrom(_, _)
\* text.unescape of the part of txt from position i on, for the entities
\* &amp; &lt; &gt;.
UnescapeFrom(txt, i) ==
    IF i > Len(txt) THEN ""
    ELSE IF StartsAt(txt, i, "&amp;") THEN "&" \o UnescapeFrom(txt, i + 5)
    ELSE IF StartsAt(txt, i, "&lt;") THEN "<" \o UnescapeFrom(txt, i + 4)
    ELSE IF StartsAt(txt, i, "&gt;") THEN ">" \o UnescapeFrom(txt, i + 4)
    ELSE SubSeq(txt, i, i) \o UnescapeFrom(txt, i + 1)

\* text.unescape(txt)
Unescape(txt) == UnescapeFrom(txt, 1)

RECURSIVE DigitRun(_, _, _)
\* The number of decimal digits at position pos of str, at most `most`.
DigitRun(str, pos, most) ==
    IF most = 0 \/ pos > Len(str) \/ DigitValue(SubSeq(str, pos, pos)) = 10 THEN 0
    ELSE 1 + DigitRun(str, pos + 1, most - 1)

RECURSIVE SpaceRun(_, _)
\* The number of spaces at position pos of str.
SpaceRun(str, pos) ==
    IF pos > Len(str) \/ SubSeq(str, pos, pos) # " " THEN 0
    ELSE 1 + SpaceRun(str, pos + 1)

IsAt(str, pos, ch) == pos <= Len(str) /\ SubSeq(str, pos, pos) = ch

DaysInMonth(year, month) ==
    IF month \in {4, 6, 9, 11} THEN 30
    ELSE IF month # 2 THEN 31
    ELSE IF year % 4 = 0 /\ (year % 100 # 0 \/ year % 400 = 0) THEN 29
    ELSE 28

NoDateTime == [ok |-> FALSE, year |-> 0, month |-> 0, day |-> 0,
               hour |-> 0, minute |-> 0, second |-> 0]

\* strptime at work on str: the position of the next character, whether
\* the format has matched so far, and the numbers read.
ParseStart(str) == [str |-> str, pos |-> 1, ok |-> TRUE, fields |-> <<>>]

\* A directive of digits: the longest run of at least `least` and at most
\* `most` digits.
ParseNumber(st, least, most) ==
    LET n == DigitRun(st.str, st.pos, most)
    IN  IF st.ok /\ n >= least
        THEN [st EXCEPT !.pos = @ + n,
                        !.fields = Append(@, DigitsValue(SubSeq(st.str, st.pos, st.pos + n - 1)))]
        ELSE [st EXCEPT !.ok = FALSE]

\* %d: one or two digits, or a blank and one digit.
ParseDay(st) ==
    IF IsAt(st.str, st.pos, " ")
    THEN ParseNumber([st EXCEPT !.pos = @ + 1], 1, 1)
    ELSE ParseNumber(st, 1, 2)

\* A character of the format other than a blank.
ParseLiteral(st, ch) ==
    IF st.ok /\ IsAt(st.str, st.pos, ch)
    THEN [st EXCEPT !.pos = @ + 1]
    ELSE [st EXCEPT !.ok = FALSE]

\* The blank of the format: one or more blanks.
ParseBlanks(st) ==
    LET n == SpaceRun(st.str, st.pos)
    IN  IF st.ok /\ n >= 1 THEN [st EXCEPT !.pos = @ + n] ELSE [st EXCEPT !.ok = FALSE]

\* The format "%Y-%m-%d %H:%M:%S", directive by directive.
DateTimeFormat == <<"%Y", "-", "%m", "-", "%d", " ", "%H", ":", "%M", ":", "%S">>

ParseStep(st, directive) ==
    CASE directive = "%Y" -> ParseNumber(st, 4, 4)
      [] directive \in {"%m", "%H", "%M", "%S"} -> ParseNumber(st, 1, 2)
      [] directive = "%d" -> ParseDay(st)
      [] directive = " " -> ParseBlanks(st)
      [] OTHER -> ParseLiteral(st, directive)

RECURSIVE ParseFormat(_, _)
\* The directives from the k-th on, applied in turn to the state st.
ParseFormat(st, k) ==
    IF k > Len(DateTimeFormat) THEN st
    ELSE CHOOSE end \in {ParseFormat(next, k + 1) :
                            next \in {ParseStep(st, DateTimeFormat[k])}} : TRUE

\* The datetime of the numbers read, where they name a date and time that
\* exist (datetime's constructor raises ValueError where they do not).
MakeDateTime(f) ==
    IF /\ f[1] >= 1
       /\ f[2] \in 1..12
       /\ f[3] \in 1..DaysInMonth(f[1], f[2])
       /\ f[4] \in 0..23
       /\ f[5] \in 0..59
       /\ f[6] \in 0..59
    THEN [ok |-> TRUE, year |-> f[1], month |-> f[2], day |-> f[3],
          hour |-> f[4], minute |-> f[5], second |-> f[6]]
    ELSE NoDateTime

\* datetime.datetime.strptime(str, "%Y-%m-%d %H:%M:%S"): ok is FALSE where
\* it raises ValueError.  %Y is four digits; the other fields are one or two
\* digits; the blank of the format stands for one or more blanks; nothing
\* may follow the seconds; the fields must name a date and time that exist.
Strptime(str) ==
    CHOOSE dt \in {IF st.ok /\ st.pos = Len(str) + 1
                   THEN MakeDateTime(st.fields)
                   ELSE NoDateTime : st \in {ParseFormat(ParseStart(str), 1)}} : TRUE

\* datetime.strftime("%Y%m") and ("%Y%m%d%H%M%S")
StrftimeMonth(dt) == ZeroPad(ToString(dt.year), 4) \o ZeroPad(ToString(dt.month), 2)

StrftimeSecond(dt) ==
    StrftimeMonth(dt) \o ZeroPad(ToString(dt.day), 2) \o ZeroPad(ToString(dt.hour), 2)
    \o ZeroPad(ToString(dt.minute), 2) \o ZeroPad(ToString(dt.second), 2)

\* self.parse_timestamp(created, "%Y-%m-%d %H:%M:%S"): the instant, or a
\* value that says there is none.
ParseTimestamp(created) == Strptime(created)

(***************************************************************************)
(* UraakajoshiExtractor: transformation of a record and its media.         *)
(***************************************************************************)
\* a.update(b) / {**a, **b}
Update(a, b) ==
    [k \in DOMAIN a \cup DOMAIN b |-> IF k \in DOMAIN b THEN b[k] ELSE a[k]]

\* d without the key (d.pop(key), the dict that is left)
Without(d, key) == [k \in DOMAIN d \ {key} |-> d[k]]

\* Faulty variant of ExtractDateFolders: a timestamp that cannot be parsed
\* is put into the path as it is.
ExtractDateFoldersRaw(created_timestamp) ==
    LET parsed_datetime == Strptime(created_timestamp)
    IN  IF parsed_datetime.ok
        THEN <<StrftimeMonth(parsed_datetime), StrftimeSecond(parsed_datetime)>>
        ELSE <<created_timestamp, created_timestamp>>

\* UraakajoshiExtractor._extract_date_folders
ExtractDateFolders(created_timestamp) ==
    LET parsed_datetime == Strptime(created_timestamp)
    IN  IF parsed_datetime.ok
        THEN <<StrftimeMonth(parsed_datetime), StrftimeSecond(parsed_datetime)>>
        ELSE <<"unknown", "unknown">>

\* UraakajoshiExtractor._build_media_url
BuildMediaUrl(username, date_folder, timestamp_folder, filename) ==
    LET first_char == SubSeq(username, 1, 1)
    IN  Root \o "/media/" \o first_char \o "/" \o username \o "/" \o date_folder
        \o "/" \o timestamp_folder \o "/" \o filename

HasDot(filename) == \E i \in 1..Len(filename) : SubSeq(filename, i, i) = "."

\* filename.split(".")[-1]
AfterLastDot(filename) ==
    LET dots == {i \in 1..Len(filename) : SubSeq(filename, i, i) = "."}
        last == CHOOSE i \in dots : \A j \in dots : j <= i
    IN  SubSeq(filename, last + 1, Len(filename))

\* UraakajoshiExtractor._get_file_extension
GetFileExtension(filename) == IF HasDot(filename) THEN AfterLastDot(filename) ELSE ""

\* UraakajoshiExtractor._create_video_metadata
CreateVideoMetadata(media, username, date_folder, timestamp_folder) ==
    [_url |-> BuildMediaUrl(username, date_folder, timestamp_folder, media.video_file_name),
     media_id |-> ParseInt(media.id),
     extension |-> GetFileExtension(media.video_file_name),
     type |-> "video"]

\* UraakajoshiExtractor._create_photo_metadata
CreatePhotoMetadata(media, username, date_folder, timestamp_folder) ==
    [_url |-> BuildMediaUrl(username, date_folder, timestamp_folder, media.photo_file_name),
     media_id |-> ParseInt(media.id),
     width |-> Get(media, "photo_width", 0),
     height |-> Get(media, "photo_height", 0),
     extension |-> GetFileExtension(media.photo_file_name),
     type |-> "photo"]

\* Faulty variant of CreateMediaMetadata: the photo is looked for first.
CreateMediaMetadataPhotoFirst(media, username, date_folder, timestamp_folder) ==
    IF HasText(media, "photo_file_name")
    THEN <<CreatePhotoMetadata(media, username, date_folder, timestamp_folder)>>
    ELSE IF HasText(media, "video_file_name")
    THEN <<CreateVideoMetadata(media, username, date_folder, timestamp_folder)>>
    ELSE <<>>

\* UraakajoshiExtractor._create_media_metadata
CreateMediaMetadata(media, username, date_folder, timestamp_folder) ==
    IF HasText(media, "video_file_name")
    THEN <<CreateVideoMetadata(media, username, date_folder, timestamp_folder)>>
    ELSE IF HasText(media, "photo_file_name")
    THEN <<CreatePhotoMetadata(media, username, date_folder, timestamp_folder)>>
    ELSE <<>>

\* UraakajoshiExtractor._has_media
HasMedia(rec) == "media" \in DOMAIN rec /\ rec.media # <<>>

\* UraakajoshiExtractor._extract_media_files
ExtractMediaFiles(rec) ==
    IF ~HasMedia(rec) THEN <<>>
    ELSE LET username == rec.user.screen_name
             folders == ExtractDateFolders(rec.tweet.created)
         IN  Concat([i \in 1..Len(rec.media) |->
                        CreateMediaMetadata(rec.media[i], username, folders[1], folders[2])])

\* UraakajoshiExtractor._transform_user_data
TransformUserData(user_data) ==
    [id |-> ParseInt(user_data.id),
     screen_name |-> user_data.screen_name,
     name |-> user_data.name,
     description |-> user_data.description,
     location |-> user_data.location,
     followers_count |-> user_data.followers_count,
     created |-> user_data.created,
     public_date |-> user_data.public_date,
     followers_ranking |-> Get(user_data, "followers_ranking", 0),
     protected |-> Get(user_data, "protected", FALSE),
     suspended |-> Get(user_data, "suspended", FALSE),
     hashtags |-> Get(user_data, "hashtags", <<>>)]

\* UraakajoshiExtractor._transform_tweet_data
TransformTweetData(tweet_data) ==
    LET tweet_id == ParseInt(tweet_data.id)
    IN  [tweet_id |-> tweet_id,
         id |-> tweet_id,
         content |-> Unescape(tweet_data.text),
         date |-> ParseTimestamp(tweet_data.created),
         created |-> tweet_data.created,
         type |-> Get(tweet_data, "type", ""),
         access_ranking |-> Get(tweet_data, "access_ranking", "")]

\* UraakajoshiExtractor._transform_tweet
TransformTweet(rec) ==
    Update(TransformTweetData(rec.tweet),
           [user |-> TransformUserData(rec.user), screen_name |-> rec.screen_name])

(***************************************************************************)
(* Records of a user's timeline.                                           *)
(***************************************************************************)
RawUser(handle) ==
    [id |-> "7", screen_name |-> handle, name |-> "Alice", description |-> "",
     location |-> "", followers_count |-> 10, created |-> "2020-01-01 00:00:00",
     public_date |-> "2020-01-02 00:00:00"]

\* The shapes of one element of a record's "media" list: no file name, a
\* photo with and without its size, a video, both, and empty file names.
AttachmentKinds ==
    {"none", "photo", "photo_nosize", "video", "both", "novideo_photo", "empty"}

Attachment(kind, i) ==
    LET id == [id |-> ToString(i)]
        photo == [photo_file_name |-> "p" \o ToString(i) \o ".jpg"]
        size == [photo_width |-> 640, photo_height |-> 480]
        video == [video_file_name |-> "v" \o ToString(i) \o ".mp4"]
    IN  CASE kind = "none" -> id
          [] kind = "photo" -> Update(id, Update(photo, size))
          [] kind = "photo_nosize" -> Update(id, [photo_file_name |-> "p" \o ToString(i)])
          [] kind = "video" -> Update(id, video)
          [] kind = "both" -> Update(id, Update(video, Update(photo, size)))
          [] kind = "novideo_photo" -> Update(id, Update([video_file_name |-> ""], photo))
          [] kind = "empty" -> [id |-> ToString(i), video_file_name |-> "", photo_file_name |-> ""]

\* The "media" list with attachments of these kinds, numbered in order.
MediaList(kinds) == [i \in 1..Len(kinds) |-> Attachment(kinds[i], i)]

\* Values of "created": timestamps of the format, one with single digits,
\* and strings that name no date and time.
CreatedSamples ==
    {"2023-07-13 06:03:38", "2024-02-29 23:59:59", "2023-7-3 6:3:8",
     "2023-02-29 10:00:00", "2023-13-01 00:00:00", "2023-07-13 24:00:00",
     "2023-07-13 06:03:60", "2023/07/13 06:03:38", "2023-07-13T06:03:38",
     "2023-07-13 06:03:38Z", "2023-07-13", "1689228218", ""}

\* Values of the post's "type": the key is left out ("-"), empty, or set.
TypeSamples == {"-", "", "retweet"}

\* The n-th record of a user's timeline.
Post(n, created, type, kinds) ==
    LET tweet == [id |-> ToString(n), text |-> "a &amp; b", created |-> created]
    IN  [user |-> RawUser("alice"),
         tweet |-> IF type = "-" THEN tweet ELSE Update(tweet, [type |-> type]),
         media |-> MediaList(kinds),
         screen_name |-> <<[screen_name |-> "alice", avatar_file_name |-> "a.png"]>>]

\* A record that has no "media" key.
PostWithoutMedia(n, created) == Without(Post(n, created, "-", <<>>), "media")

\* Timelines of one post, with every shape of attachment, timestamp and type.
RichFeeds ==
    {<<Post(1, c, t, ks)>> :
        c \in CreatedSamples, t \in TypeSamples, ks \in SeqsUpTo(AttachmentKinds, MaxMedia)}
    \cup {<<PostWithoutMedia(1, c)>> : c \in CreatedSamples}

\* Timelines of several posts whose attachments are photos or nothing.
PlainFeeds ==
    LET lists == SeqsUpTo({"none", "photo"}, MaxMedia)
        shapes == SeqsUpTo(lists, MaxPosts)
    IN  {[n \in 1..Len(sh) |-> Post(n, "2023-07-13 06:03:38", "", sh[n])] : sh \in shapes}

NoPending == [tweet |-> EmptyDict, files |-> <<>>, num |-> 0]

TimelineInit ==
    /\ mode = "timeline"
    /\ input \in RichFeeds \cup PlainFeeds
    /\ taken = 0
    /\ seen_users = {}
    /\ pending = NoPending
    /\ output = <<>>
    /\ vpc = "created"

(***************************************************************************)
(* UraakajoshiExtractor.items, with tweets() of the Timeline view.         *)
(***************************************************************************)
\* Faulty variant of SkipsPost: no post is skipped.
SkipsPostNever(media_files) == FALSE

\* if not media_files: continue
SkipsPost(media_files) == media_files = <<>>

DirectoryMessage(transformed_tweet) == [kind |-> "Directory", meta |-> transformed_tweet]

\* url = file_metadata.pop("_url"); file_metadata.update(transformed_tweet);
\* file_metadata["num"] = file_number; yield Message.Url, url, file_metadata
UrlMessage(file_metadata, transformed_tweet, file_number) ==
    [kind |-> "Url", url |-> file_metadata._url,
     meta |-> Update(Update(Without(file_metadata, "_url"), transformed_tweet),
                     [num |-> file_number])]

\* One resume of items().  Inside the `for` over the files of a post the
\* next file's Url message is yielded.  Otherwise records are taken from
\* the pager until one has media files, and its Directory message is
\* yielded; when the pager ends, items() ends.
TimelineNext ==
    /\ mode = "timeline"
    /\ vpc \in {"created", "suspended"}
    /\ IF pending.files # <<>>
       THEN /\ output' = Append(output, UrlMessage(Head(pending.files), pending.tweet,
                                                   pending.num + 1))
            /\ pending' = [pending EXCEPT !.files = Tail(@), !.num = @ + 1]
            /\ vpc' = "suspended"
            /\ UNCHANGED taken
       ELSE LET posts == {i \in (taken + 1)..Len(input) :
                             ~SkipsPost(ExtractMediaFiles(input[i]))}
            IN  IF posts = {}
                THEN /\ taken' = Len(input)
                     /\ vpc' = "done"
                     /\ pending' = NoPending
                     /\ UNCHANGED output
                ELSE LET i == CHOOSE k \in posts : \A l \in posts : k <= l
                         transformed_tweet == TransformTweet(input[i])
                     IN  /\ taken' = i
                         /\ vpc' = "suspended"
                         /\ pending' = [tweet |-> transformed_tweet,
                                        files |-> ExtractMediaFiles(input[i]),
                                        num |-> 0]
                         /\ output' = Append(output, DirectoryMessage(transformed_tweet))
    /\ UNCHANGED <<pager, mode, input, seen_users>>

(***************************************************************************)
(* UraakajoshiAvatarExtractor.items and UraakajoshiBackgroundExtractor     *)
(* .items, which differ in the key of the file name and in the media type. *)
(***************************************************************************)
UpperCase == "ABCDEFGHIJKLMNOPQRSTUVWXYZ"
LowerCase == "abcdefghijklmnopqrstuvwxyz"

LowerChar(ch) ==
    IF \E i \in 1..Len(UpperCase) : SubSeq(UpperCase, i, i) = ch
    THEN LET i == CHOOSE k \in 1..Len(UpperCase) : SubSeq(UpperCase, k, k) = ch
         IN  SubSeq(LowerCase, i, i)
    ELSE ch

RECURSIVE LowerFrom(_, _)
LowerFrom(str, i) ==
    IF i > Len(str) THEN "" ELSE LowerChar(SubSeq(str, i, i)) \o LowerFrom(str, i + 1)

\* str.lower()
Lower(str) == LowerFrom(str, 1)

\* filename.rsplit(".", 1)[0], for a filename with a dot
BeforeLastDot(filename) ==
    LET dots == {i \in 1..Len(filename) : SubSeq(filename, i, i) = "."}
        last == CHOOSE i \in dots : \A j \in dots : j <= i
    IN  SubSeq(filename, 1, last - 1)

FileKey(m) == IF m = "avatar" THEN "avatar_file_name" ELSE "banner_file_name"

\* seen_files when the loop of _extract_unique_profile_media comes to the
\* i-th entry: the file names of the entries before it that have one.
SeenFiles(screen_names, file_key, i) ==
    {screen_names[j][file_key] :
        j \in {k \in 1..(i - 1) : HasText(screen_names[k], file_key)}}

\* Faulty variant of NewFile: a file name seen before counts as new.
NewFileAgain(screen_names, file_key, i) == HasText(screen_names[i], file_key)

\* if filename and filename not in seen_files
NewFile(screen_names, file_key, i) ==
    /\ HasText(screen_names[i], file_key)
    /\ screen_names[i][file_key] \notin SeenFiles(screen_names, file_key, i)

\* The elements of a set of numbers, in increasing order.
InOrder(S) ==
    [n \in 1..Cardinality(S) |->
        CHOOSE i \in S : Cardinality({j \in S : j <= i}) = n]

\* UraakajoshiExtractor._extract_unique_profile_media
ExtractUniqueProfileMedia(screen_names, file_key) ==
    LET kept == InOrder({i \in 1..Len(screen_names) : NewFile(screen_names, file_key, i)})
    IN  [n \in 1..Len(kept) |-> <<screen_names[kept[n]], screen_names[kept[n]][file_key]>>]

\* UraakajoshiExtractor._create_profile_media_metadata
CreateProfileMediaMetadata(username, filename, media_type, file_number, user_data) ==
    [extension |-> IF HasDot(filename) THEN Lower(AfterLastDot(filename)) ELSE "jpg",
     filename |-> IF HasDot(filename) THEN BeforeLastDot(filename) ELSE filename,
     media_id |-> media_type \o "_" \o username,
     type |-> media_type,
     tweet_id |-> 0,
     num |-> file_number,
     screen_name |-> username,
     user |-> user_data]

\* UraakajoshiExtractor._build_profile_media_url
BuildProfileMediaUrl(username, filename) ==
    Root \o "/media/" \o SubSeq(username, 1, 1) \o "/" \o username \o "/profile/" \o filename

\* Entries of a record's "screen_name" list, the history of the account's
\* handles: the handle, and under the given key a file name, an empty one,
\* or none.
HistoryEntries(file_key) ==
    {[screen_name |-> h] : h \in {"alice", "alice_old"}}
    \cup {[k \in {"screen_name", file_key} |-> IF k = "screen_name" THEN h ELSE f] :
             h \in {"alice", "alice_old"}, f \in {"", "a.PNG", "b"}}

\* The first record of the user's timeline, with this history.
ProfileRecord(history) ==
    Update(Post(1, "2023-07-13 06:03:38", "", <<>>), [screen_name |-> history])

\* What the two calls of user_timeline(username, max_pages=1) yield first:
\* nothing, or the first record of the timeline.
ProfileFetches(file_key) ==
    {<<<<ProfileRecord(h)>>, <<ProfileRecord(h)>>>> :
        h \in SeqsUpTo(HistoryEntries(file_key), MaxHistory)}
    \cup {<<<<>>, <<>>>>, <<<<ProfileRecord(<<>>)>>, <<>>>>, <<<<>>, <<ProfileRecord(<<>>)>>>>}

ProfileInit ==
    /\ mode \in {"avatar", "background"}
    /\ input \in ProfileFetches(FileKey(mode))
    /\ taken = 0
    /\ seen_users = {}
    /\ pending = NoPending
    /\ output = <<>>
    /\ vpc = "created"

\* UraakajoshiExtractor._get_first_tweet_data and
\* _get_user_data_from_timeline: whether the call returns None.
ReturnsNone(fetch) == fetch = <<>>

\* One resume of the Avatar or Background view's items().  The first makes
\* the two fetches and, if both gave a record, yields the Directory message;
\* the unique files of the record's history (none if the history is empty)
\* are then yielded one by one.
ProfileNext ==
    /\ mode \in {"avatar", "background"}
    /\ \/ /\ vpc = "created"
          /\ taken' = 2
          /\ IF ReturnsNone(input[1]) \/ ReturnsNone(input[2])
             THEN /\ vpc' = "done"
                  /\ UNCHANGED <<pending, output>>
             ELSE LET tweet_data == input[1][1]
                      user_data == TransformTweet(input[2][1]).user
                      screen_names == Get(tweet_data, "screen_name", <<>>)
                  IN  /\ vpc' = "suspended"
                      /\ output' = Append(output, DirectoryMessage([user |-> user_data]))
                      /\ pending' = [tweet |-> user_data,
                                     files |-> ExtractUniqueProfileMedia(screen_names,
                                                                         FileKey(mode)),
                                     num |-> 0]
       \/ /\ vpc = "suspended"
          /\ UNCHANGED taken
          /\ IF pending.files = <<>>
             THEN /\ vpc' = "done"
                  /\ UNCHANGED <<pending, output>>
             ELSE LET screen_name_data == Head(pending.files)[1]
                      filename == Head(pending.files)[2]
                      username == screen_name_data.screen_name
                  IN  /\ vpc' = "suspended"
                      /\ pending' = [pending EXCEPT !.files = Tail(@), !.num = @ + 1]
                      /\ output' = Append(output,
                            [kind |-> "Url",
                             url |-> BuildProfileMediaUrl(username, filename),
                             meta |-> CreateProfileMediaMetadata(username, filename, mode,
                                                                 pending.num + 1,
                                                                 pending.tweet)])
    /\ UNCHANGED <<pager, mode, input, seen_users>>

InitViews == (ParamsInit \/ TagInit \/ TimelineInit \/ ProfileInit) /\ PagerAside

NextViews ==
    \/ BuildParams
    \/ TagNext
    \/ TimelineNext
    \/ ProfileNext

SpecViews == InitViews /\ [][NextViews]_vars

\* C15: the page_name parameter sent for page p is the last page number of
\* p's bucket of 1000, (p div 1000) * 1000 + 999, as six digits padded with
\* zeros; it depends on p alone, not on the calls made before.
C15_PageBucket ==
    mode = "params" =>
        \A i \in 1..Len(output) :
            LET p == input[i]
                name == output[i].page_name
            IN  /\ Len(name) = 6
                /\ IsDigits(name)
                /\ DigitsValue(name) = (p \div 1000) * 1000 + 999
                /\ p \in {1, 999} => name = "000999"
                /\ p = 1000 => name = "001999"
                /\ p = 2500 => name = "002999"
                /\ \A j \in 1..Len(output) :
                      input[j] = p => output[j].page_name = name

\* C15 witness: the parameters for page 2500 were built after those for
\* page 999.
C15_Witness ==
    /\ mode = "params"
    /\ Len(output) = 2
    /\ input = <<999, 2500>>
    /\ output[2].page_name = "002999"

\* The author's handle of a record, "" when it has none.
HandleOf(rec) ==
    IF "user" \in DOMAIN rec /\ "screen_name" \in DOMAIN rec.user
    THEN rec.user.screen_name
    ELSE ""

\* The position in the feed of the first record of handle h.
FirstSeen(h) == CHOOSE k \in 1..Len(input) :
                    HandleOf(input[k]) = h /\ \A l \in 1..(k - 1) : HandleOf(input[l]) # h

IsExampleFeed ==
    /\ Len(input) = 4
    /\ HandleOf(input[1]) = "alice" /\ HandleOf(input[2]) = "bob"
    /\ HandleOf(input[3]) = "alice" /\ HandleOf(input[4]) = "carol"

\* C11: the Hashtag view yields only Queue messages, exactly one for each
\* distinct author handle among the records it has taken from the feed, none
\* twice, in the order in which the handles first appear; records
\* of [alice, bob, alice, carol] give alice, bob, carol.
C11_HashtagFanOut ==
    mode = "tag" =>
        LET urls == [i \in 1..Len(output) |-> output[i].url]
            taken_handles == {HandleOf(input[k]) : k \in 1..taken} \ {""}
            UserUrl(h) == Root \o "/user/" \o h
        IN  /\ \A i \in 1..Len(output) : output[i].kind = "Queue"
            /\ \A i, j \in 1..Len(urls) : urls[i] = urls[j] => i = j
            /\ Range(urls) = {UserUrl(h) : h \in taken_handles}
            /\ \A i, j \in 1..Len(urls) : \A g, h \in taken_handles :
                  (urls[i] = UserUrl(g) /\ urls[j] = UserUrl(h) /\ i < j)
                      => FirstSeen(g) < FirstSeen(h)
            /\ vpc = "done" => taken = Len(input)
            /\ (IsExampleFeed /\ vpc = "done") =>
                  urls = <<UserUrl("alice"), UserUrl("bob"), UserUrl("carol")>>

\* C11 witness: the feed [alice, bob, alice, carol] was read to its end.
C11_Witness ==
    /\ mode = "tag"
    /\ IsExampleFeed
    /\ vpc = "done"
    /\ Len(output) = 3

(***************************************************************************)
(* The Timeline view: what is yielded for the posts of a timeline.         *)
(***************************************************************************)
UrlEvents == {j \in 1..Len(output) : output[j].kind = "Url"}

\* The attachments of a record that name a file.
Resolvable(rec) ==
    IF "media" \in DOMAIN rec
    THEN {i \in 1..Len(rec.media) : HasText(rec.media[i], "video_file_name")
                                    \/ HasText(rec.media[i], "photo_file_name")}
    ELSE {}

\* The n-th of them, in the order of the attachments.
NthResolvable(rec, n) ==
    CHOOSE i \in Resolvable(rec) : Cardinality({j \in Resolvable(rec) : j <= i}) = n

\* The messages due for the n-th post: none if no attachment names a file,
\* else a Directory and the Urls 1..k.
PostSignature(n, rec) ==
    LET k == Cardinality(Resolvable(rec))
    IN  IF k = 0 THEN <<>>
        ELSE <<<<"Directory", n, 0>>>> \o [i \in 1..k |-> <<"Url", n, i>>]

ExpectedSignature(feed) == Concat([n \in 1..Len(feed) |-> PostSignature(n, feed[n])])

\* The messages yielded: kind, post, and number of the file.
Signature(msgs) ==
    [j \in 1..Len(msgs) |->
        <<msgs[j].kind, msgs[j].meta.tweet_id,
          IF msgs[j].kind = "Url" THEN msgs[j].meta.num ELSE 0>>]

\* C12: for each post with at least one attachment that names a file, in
\* the order of the timeline, the Timeline view yields one Directory message
\* and right after it the post's Url messages, numbered 1..k in the order of
\* the attachments; a post without such an attachment yields nothing, and no
\* Url message comes without the Directory message of its post before it.
C12_EmissionOrder ==
    mode = "timeline" =>
        /\ IsPrefix(Signature(output), ExpectedSignature(input))
        /\ vpc = "done" => Signature(output) = ExpectedSignature(input)
        /\ \A j \in UrlEvents :
              LET rec == input[output[j].meta.tweet_id]
              IN  output[j].meta.media_id = NthResolvable(rec, output[j].meta.num)

\* C12 witness: a timeline of a post with two photos and a post whose second
\* attachment alone names a file was read to its end.
C12_Witness ==
    /\ mode = "timeline"
    /\ vpc = "done"
    /\ Len(input) = 2
    /\ Resolvable(input[1]) = {1, 2}
    /\ Resolvable(input[2]) = {2}
    /\ Signature(output) = <<<<"Directory", 1, 0>>, <<"Url", 1, 1>>, <<"Url", 1, 2>>,
                             <<"Directory", 2, 0>>, <<"Url", 2, 1>>>>

\* Whether str ends with suffix.
EndsWith(str, suffix) ==
    /\ Len(suffix) <= Len(str)
    /\ SubSeq(str, Len(str) - Len(suffix) + 1, Len(str)) = suffix

\* The media files of a post are in hand: its Directory message was just
\* yielded, none of its Url messages yet.
FilesInHand ==
    mode = "timeline" /\ vpc = "suspended" /\ taken >= 1 /\ pending.num = 0

\* C13: every attachment gives at most one media file: a video when its
\* video file name is not empty, also when it has a photo file name; a photo,
\* with width and height 0 where the record has none, when only its photo
\* file name is not empty; none otherwise.
C13_VideoDominatesPhoto ==
    FilesInHand =>
        LET media == input[taken].media
            files == pending.files
        IN  /\ \A j \in 1..Len(files) : files[j].media_id \in 1..Len(media)
            /\ \A i \in 1..Len(media) :
                  LET of_i == {j \in 1..Len(files) : files[j].media_id = i}
                      m == media[i]
                  IN  /\ Cardinality(of_i) <= 1
                      /\ HasText(m, "video_file_name") =>
                            \E j \in of_i :
                               /\ files[j].type = "video"
                               /\ EndsWith(files[j]._url, "/" \o m.video_file_name)
                               /\ "width" \notin DOMAIN files[j]
                      /\ (~HasText(m, "video_file_name") /\ HasText(m, "photo_file_name")) =>
                            \E j \in of_i :
                               /\ files[j].type = "photo"
                               /\ EndsWith(files[j]._url, "/" \o m.photo_file_name)
                               /\ files[j].width =
                                    (IF "photo_width" \in DOMAIN m THEN m.photo_width ELSE 0)
                               /\ files[j].height =
                                    (IF "photo_height" \in DOMAIN m THEN m.photo_height ELSE 0)
                      /\ (~HasText(m, "video_file_name") /\ ~HasText(m, "photo_file_name")) =>
                            of_i = {}

\* C13 witness: a post whose first attachment has a video and a photo file
\* name, and whose second has a photo file name and no size.
C13_Witness ==
    /\ FilesInHand
    /\ Len(input[taken].media) = 2
    /\ HasText(input[taken].media[1], "video_file_name")
    /\ HasText(input[taken].media[1], "photo_file_name")
    /\ "photo_width" \notin DOMAIN input[taken].media[2]
    /\ Len(pending.files) = 2
    /\ pending.files[1].type = "video"
    /\ pending.files[2].type = "photo"
    /\ pending.files[2].width = 0

\* Timestamps in the very form YYYY-MM-DD HH:MM:SS that name a date and time.
WellFormed == {"2023-07-13 06:03:38", "2024-02-29 23:59:59"}

\* The folders a timestamp gives: its year and month, and all its digits, for
\* the well-formed ones and for the one with single digits; "unknown" for
\* every other string.
ExpectedFolders(created) ==
    IF created \in WellFormed
    THEN LET month == SubSeq(created, 1, 4) \o SubSeq(created, 6, 7)
         IN  <<month, month \o SubSeq(created, 9, 10) \o SubSeq(created, 12, 13)
                      \o SubSeq(created, 15, 16) \o SubSeq(created, 18, 19)>>
    ELSE IF created = "2023-7-3 6:3:8" THEN <<"202307", "20230703060308">>
    ELSE <<"unknown", "unknown">>

\* C16: a timestamp that cannot be parsed does not abort the post: every
\* media file of it is yielded, with "unknown" for both date segments of its
\* URL; a timestamp that can be parsed gives YYYYMM and YYYYMMDDHHMMSS.
C16_UnknownDateFolders ==
    mode = "timeline" =>
        /\ \A j \in UrlEvents :
              LET rec == input[output[j].meta.tweet_id]
                  m == rec.media[output[j].meta.media_id]
                  folders == ExpectedFolders(rec.tweet.created)
                  name == IF HasText(m, "video_file_name") THEN m.video_file_name
                          ELSE m.photo_file_name
              IN  output[j].url = Root \o "/media/a/alice/" \o folders[1] \o "/"
                                  \o folders[2] \o "/" \o name
        /\ vpc = "done" =>
              Cardinality(UrlEvents) =
                 Cardinality({<<n, i>> \in (1..Len(input)) \X (1..MaxMedia) :
                                 i \in Resolvable(input[n])})

\* C16 witness: both media files of a post of 29 February 2023 were yielded
\* under unknown/unknown.
C16_Witness ==
    /\ mode = "timeline"
    /\ vpc = "done"
    /\ Len(input) = 1
    /\ input[1].tweet.created = "2023-02-29 10:00:00"
    /\ Len(output) = 3
    /\ output[2].url = Root \o "/media/a/alice/unknown/unknown/v1.mp4"
    /\ output[3].url = Root \o "/media/a/alice/unknown/unknown/p2.jpg"

\* C18: the metadata of every Url message still has the fields of its media
\* file after the post's metadata was merged in: the kind of the file,
\* "photo" or "video", under the key type, and media_id and extension.
C18_DescriptorKept ==
    mode = "timeline" =>
        \A j \in UrlEvents :
            LET rec == input[output[j].meta.tweet_id]
                m == rec.media[output[j].meta.media_id]
            IN  /\ output[j].meta.type =
                     (IF HasText(m, "video_file_name") THEN "video" ELSE "photo")
                /\ output[j].meta.media_id = NthResolvable(rec, output[j].meta.num)
                /\ output[j].meta.extension \in {"mp4", "jpg", ""}

(***************************************************************************)
(* The Avatar and Background views.                                        *)
(***************************************************************************)
\* The file name the i-th entry of a history has under the key, "" if none.
FileOf(history, key, i) == IF key \in DOMAIN history[i] THEN history[i][key] ELSE ""

\* The entries of a history that are the first to have their file name.
FirstEntries(history, key) ==
    {i \in 1..Len(history) :
        /\ FileOf(history, key, i) # ""
        /\ \A j \in 1..(i - 1) : FileOf(history, key, j) # FileOf(history, key, i)}

\* Both fetches of a profile view gave a record.
ProfileFound ==
    mode \in {"avatar", "background"} /\ taken = 2 /\ input[1] # <<>> /\ input[2] # <<>>

\* C14: the Avatar (Background) view yields, after its Directory message,
\* one Url message for each distinct non-empty avatar (banner) file name of
\* the account's history, in the order in which the file names first appear,
\* numbered 1..k, each with the handle of the first entry that has the file
\* name.
C14_ProfileImageDedup ==
    ProfileFound =>
        LET history == input[1][1].screen_name
            key == IF mode = "avatar" THEN "avatar_file_name" ELSE "banner_file_name"
            firsts == FirstEntries(history, key)
        IN  /\ output[1].kind = "Directory"
            /\ Len(output) - 1 <= Cardinality(firsts)
            /\ vpc = "done" => Len(output) - 1 = Cardinality(firsts)
            /\ \A n \in 1..(Len(output) - 1) :
                  \E i \in firsts :
                     /\ Cardinality({j \in firsts : j <= i}) = n
                     /\ output[n + 1].kind = "Url"
                     /\ output[n + 1].meta.num = n
                     /\ output[n + 1].meta.screen_name = history[i].screen_name
                     /\ output[n + 1].meta.type = mode
                     /\ output[n + 1].url =
                           Root \o "/media/a/" \o history[i].screen_name \o "/profile/"
                           \o FileOf(history, key, i)

\* C14 witness: the history has a.PNG under the old handle, then b, then
\* a.PNG again under the new handle; the Background view yielded two files,
\* the first with the old handle.
C14_Witness ==
    /\ ProfileFound
    /\ mode = "background"
    /\ vpc = "done"
    /\ Len(input[1][1].screen_name) = 3
    /\ Len(output) = 3
    /\ output[2].url = Root \o "/media/a/alice_old/profile/a.PNG"
    /\ output[3].url = Root \o "/media/a/alice/profile/b"
    /\ FileOf(input[1][1].screen_name, "banner_file_name", 3) = "a.PNG"

=============================================================================
